---- MODULE Spec2Model ----
(***************************************************************************)
(* A model of the GAP coreference scorer (gap_scorer.py, constants.py).   *)
(*                                                                         *)
(* The run is one linear pipeline (run_scorer):                            *)
(*   read gold -> read system -> calculate_scores -> make_scorecard.       *)
(* Each loop iteration of read_annotations and of calculate_scores is one  *)
(* step.  Python values True/False/None are the strings "True", "False",   *)
(* "None"; the text of a file field is a sequence of one-character         *)
(* strings, so that str.lower() is a real conversion.  Floats are exact    *)
(* rationals <<numerator, denominator>>.                                   *)
(***************************************************************************)
EXTENDS Integers, Sequences, FiniteSets, TLC

VARIABLES
  pc,                  \* position of the run
  is_gold,             \* argument of the read_annotations call in progress
  annotations,         \* local dict of the read_annotations call in progress
  row,                 \* local loop variable of read_annotations
  nread,               \* data rows consumed by the call in progress
  file,                \* rows consumed from the file so far (ReaderSpec only)
  gold_annotations,    \* run_scorer's local
  system_annotations,  \* run_scorer's local
  system_read,         \* the dict read_annotations returned for the system file
  todo,                \* gold example IDs calculate_scores has yet to visit
  scores,              \* calculate_scores' local dict
  scorecard            \* the list of lines make_scorecard returns

vars == <<pc, is_gold, annotations, row, nread, file, gold_annotations,
          system_annotations, system_read, todo, scores, scorecard>>

----------------------------------------------------------------------------
(* Bounds of the model. *)

\* Data rows read from one file.
MaxRows == 2

\* Largest tp + fp + tn + fn of a tally handed to make_scorecard in MetricsSpec.
MaxTally == 3

----------------------------------------------------------------------------
(* Python values. *)

None == "None"
PyTrue == "True"
PyFalse == "False"

\* constants.py: class Gender(Enum)
UNKNOWN == "UNKNOWN"
MASCULINE == "MASCULINE"
FEMININE == "FEMININE"

\* bool(x) for x in {True, False, None}
Truthy(x) == x = PyTrue

----------------------------------------------------------------------------
(* Text: a string is a sequence of characters. *)

UpperChars ==
  <<"A","B","C","D","E","F","G","H","I","J","K","L","M",
    "N","O","P","Q","R","S","T","U","V","W","X","Y","Z">>

LowerChars ==
  <<"a","b","c","d","e","f","g","h","i","j","k","l","m",
    "n","o","p","q","r","s","t","u","v","w","x","y","z">>

LowerChar(c) ==
  IF \E i \in DOMAIN UpperChars : UpperChars[i] = c
    THEN LowerChars[CHOOSE i \in DOMAIN UpperChars : UpperChars[i] = c]
    ELSE c

\* str.lower()
Lower(s) == [i \in DOMAIN s |-> LowerChar(s[i])]

\* constants.py: PRONOUNS
PRONOUNS ==
  (<<"s","h","e">> :> FEMININE) @@
  (<<"h","e","r">> :> FEMININE) @@
  (<<"h","e","r","s">> :> FEMININE) @@
  (<<"h","e">> :> MASCULINE) @@
  (<<"h","i","s">> :> MASCULINE) @@
  (<<"h","i","m">> :> MASCULINE)

\* dict.get(key, default)
DictGet(d, key, default) == IF key \in DOMAIN d THEN d[key] ELSE default

----------------------------------------------------------------------------
(* The inputs: the rows a file may hold. *)

ExampleIds == {"1", "2"}

CorefTexts == {<<"T","r","u","e">>, <<"F","A","L","S","E">>, <<"m","a","y","b","e">>}

PronounTexts == {<<"S","h","e">>, <<"h","i","m">>, <<"i","t">>}

\* A row as csv.DictReader yields it, restricted to the fields that are read.
\* A system row has no Pronoun field; it is never read when is_gold is False.
GoldRows ==
  [ID : ExampleIds, Pronoun : PronounTexts, Acoref : CorefTexts, Bcoref : CorefTexts]

SystemRows ==
  [ID : ExampleIds, Pronoun : {<<>>}, Acoref : CorefTexts, Bcoref : CorefTexts]

\* The first line of a gold file: the header, or a data row in its place.
HeaderRows ==
  { [ID |-> "ID", Pronoun |-> <<"P","r","o","n","o","u","n">>,
     Acoref |-> <<"A","-","c","o","r","e","f">>,
     Bcoref |-> <<"B","-","c","o","r","e","f">>],
    [ID |-> "1", Pronoun |-> <<"S","h","e">>,
     Acoref |-> <<"T","r","u","e">>, Bcoref |-> <<"F","A","L","S","E">>] }

NoRow == [ID |-> "", Pronoun |-> <<>>, Acoref |-> <<>>, Bcoref |-> <<>>]

EmptyDict == <<>>

----------------------------------------------------------------------------
(* gap_scorer.py: Annotation, Scores *)

\* Annotation.__init__
Annotation == [gender |-> None, name_a_coref |-> None, name_b_coref |-> None]

\* Scores.__init__
Scores ==
  [true_positives |-> 0, false_positives |-> 0,
   true_negatives |-> 0, false_negatives |-> 0]

(* Exact rationals <<n, d>> in lowest terms, d > 0; the values are >= 0. *)
RECURSIVE Gcd(_, _)
Gcd(a, b) == IF b = 0 THEN a ELSE Gcd(b, a % b)

Rat(n, d) == LET g == Gcd(n, d) IN <<n \div g, d \div g>>
RZero == <<0, 1>>
RIsZero(x) == x[1] = 0
RAdd(x, y) == Rat(x[1] * y[2] + y[1] * x[2], x[2] * y[2])
RMul(x, y) == Rat(x[1] * y[1], x[2] * y[2])
RDiv(x, y) == Rat(x[1] * y[2], x[2] * y[1])
RLeq(x, y) == x[1] * y[2] <= y[1] * x[2]
REq(x, y) == x[1] * y[2] = y[1] * x[2]

\* Scores.recall  (recallBadDenominator: the variant dividing by fn alone.)
recallBadDenominator(s) ==
  LET numerator == s.true_positives
      denominator == s.false_negatives
  IN  IF denominator # 0 THEN Rat(100 * numerator, denominator) ELSE RZero

recall(s) ==
  LET numerator == s.true_positives
      denominator == s.true_positives + s.false_negatives
  IN  IF denominator # 0 THEN Rat(100 * numerator, denominator) ELSE RZero

\* Scores.precision
precision(s) ==
  LET numerator == s.true_positives
      denominator == s.true_positives + s.false_positives
  IN  IF denominator # 0 THEN Rat(100 * numerator, denominator) ELSE RZero

\* Scores.f1
f1(s) ==
  LET r == recall(s)
      p == precision(s)
      numerator == RMul(Rat(2, 1), RMul(p, r))
      denominator == RAdd(p, r)
  IN  IF ~RIsZero(denominator) THEN RDiv(numerator, denominator) ELSE RZero

----------------------------------------------------------------------------
(* gap_scorer.py: read_annotations *)

\* read_annotations.is_true
is_true(value) ==
  IF Lower(value) = <<"t","r","u","e">> THEN PyTrue
  ELSE IF Lower(value) = <<"f","a","l","s","e">> THEN PyFalse
  ELSE None

\* The gender looked up for a gold row (line 142).
RowGender(r) == DictGet(PRONOUNS, Lower(r.Pronoun), UNKNOWN)

\* One iteration of the loop over the rows: the dict afterwards, and whether the
\* assertion on the gender failed.  (ReadRowOverwrite: the variant without the
\* check for a repeated ID.)
ReadRowOverwrite(anns, r, isGold) ==
  LET filled == [Annotation EXCEPT !.name_a_coref = is_true(r.Acoref),
                                   !.name_b_coref = is_true(r.Bcoref)]
      gender == RowGender(r)
      put(a) == IF r.ID \in DOMAIN anns
                  THEN [anns EXCEPT ![r.ID] = a]
                  ELSE anns @@ (r.ID :> a)
  IN  IF ~isGold THEN [annotations |-> put(filled), failed |-> FALSE]
      ELSE IF gender = UNKNOWN THEN [annotations |-> put(filled), failed |-> TRUE]
      ELSE [annotations |-> put([filled EXCEPT !.gender = gender]), failed |-> FALSE]

ReadRow(anns, r, isGold) ==
  IF r.ID \in DOMAIN anns
    THEN [annotations |-> anns, failed |-> FALSE]
    ELSE LET filled == [Annotation EXCEPT !.name_a_coref = is_true(r.Acoref),
                                          !.name_b_coref = is_true(r.Bcoref)]
             gender == RowGender(r)
         IN  IF ~isGold
               THEN [annotations |-> anns @@ (r.ID :> filled), failed |-> FALSE]
             ELSE IF gender = UNKNOWN
               THEN [annotations |-> anns @@ (r.ID :> filled), failed |-> TRUE]
             ELSE [annotations |-> anns @@ (r.ID :> [filled EXCEPT !.gender = gender]),
                   failed |-> FALSE]

----------------------------------------------------------------------------
(* gap_scorer.py: calculate_scores *)

\* system_annotations[example_id] on a defaultdict(Annotation): the dict after
\* the lookup (a missing key is inserted with a fresh Annotation).
\* (LookupNoInsert: the variant of a plain dict.get, which inserts nothing.)
LookupNoInsert(d, example_id) == d

Lookup(d, example_id) ==
  IF example_id \in DOMAIN d THEN d ELSE d @@ (example_id :> Annotation)

\* The value the lookup yields.
LookupValue(d, example_id) == DictGet(d, example_id, Annotation)

\* The if/elif chain over one (gold, system) pair, applied to one Scores object.
\* (Variants: a null gold judgment skipped; a null system judgment dropped; a
\* null system judgment read as false; the last two counters swapped.)
AddJudgmentGoldNoneSkipped(s, gold, system) ==
  IF system = None
    THEN [s EXCEPT !.false_negatives = @ + 1]
  ELSE IF gold = None
    THEN s
  ELSE IF Truthy(gold) /\ Truthy(system)
    THEN [s EXCEPT !.true_positives = @ + 1]
  ELSE IF ~Truthy(gold) /\ Truthy(system)
    THEN [s EXCEPT !.false_positives = @ + 1]
  ELSE IF ~Truthy(gold) /\ ~Truthy(system)
    THEN [s EXCEPT !.true_negatives = @ + 1]
  ELSE [s EXCEPT !.false_negatives = @ + 1]

AddJudgmentMissingDropped(s, gold, system) ==
  IF system = None
    THEN s
  ELSE IF Truthy(gold) /\ Truthy(system)
    THEN [s EXCEPT !.true_positives = @ + 1]
  ELSE IF ~Truthy(gold) /\ Truthy(system)
    THEN [s EXCEPT !.false_positives = @ + 1]
  ELSE IF ~Truthy(gold) /\ ~Truthy(system)
    THEN [s EXCEPT !.true_negatives = @ + 1]
  ELSE [s EXCEPT !.false_negatives = @ + 1]

AddJudgmentMissingAsFalse(s, gold, system) ==
  IF Truthy(gold) /\ Truthy(system)
    THEN [s EXCEPT !.true_positives = @ + 1]
  ELSE IF ~Truthy(gold) /\ Truthy(system)
    THEN [s EXCEPT !.false_positives = @ + 1]
  ELSE IF ~Truthy(gold) /\ ~Truthy(system)
    THEN [s EXCEPT !.true_negatives = @ + 1]
  ELSE [s EXCEPT !.false_negatives = @ + 1]

AddJudgmentSwapped(s, gold, system) ==
  IF system = None
    THEN [s EXCEPT !.false_negatives = @ + 1]
  ELSE IF Truthy(gold) /\ Truthy(system)
    THEN [s EXCEPT !.true_positives = @ + 1]
  ELSE IF ~Truthy(gold) /\ Truthy(system)
    THEN [s EXCEPT !.false_positives = @ + 1]
  ELSE IF ~Truthy(gold) /\ ~Truthy(system)
    THEN [s EXCEPT !.false_negatives = @ + 1]
  ELSE [s EXCEPT !.true_negatives = @ + 1]

AddJudgment(s, gold, system) ==
  IF system = None
    THEN [s EXCEPT !.false_negatives = @ + 1]
  ELSE IF Truthy(gold) /\ Truthy(system)
    THEN [s EXCEPT !.true_positives = @ + 1]
  ELSE IF ~Truthy(gold) /\ Truthy(system)
    THEN [s EXCEPT !.false_positives = @ + 1]
  ELSE IF ~Truthy(gold) /\ ~Truthy(system)
    THEN [s EXCEPT !.true_negatives = @ + 1]
  ELSE IF Truthy(gold) /\ ~Truthy(system)
    THEN [s EXCEPT !.false_negatives = @ + 1]
  ELSE s

\* The body of "for gender in [None, gold_annotation.gender]" for one gender.
ScoreGender(sc, gender, gold_annotation, system_annotation) ==
  LET sc0 == IF gender \in DOMAIN sc THEN sc ELSE sc @@ (gender :> Scores)
      s1 == AddJudgment(sc0[gender],
                        gold_annotation.name_a_coref, system_annotation.name_a_coref)
      s2 == AddJudgment(s1,
                        gold_annotation.name_b_coref, system_annotation.name_b_coref)
  IN  [sc0 EXCEPT ![gender] = s2]

\* One iteration of the loop over the gold annotations.
\* (ScoreExampleOverallOnly: the variant without the gender's tally.)
ScoreExampleOverallOnly(sc, gold_annotation, system_annotation) ==
  ScoreGender(sc, None, gold_annotation, system_annotation)

ScoreExample(sc, gold_annotation, system_annotation) ==
  ScoreGender(
    ScoreGender(sc, None, gold_annotation, system_annotation),
    gold_annotation.gender, gold_annotation, system_annotation)

----------------------------------------------------------------------------
(* gap_scorer.py: make_scorecard *)

\* '{:.1f}'.format(x) with scale 10, '{:.2f}'.format(x) with scale 100: the
\* decimal printed, as the integer number of tenths or hundredths (the nearest
\* one, a tie going to the even one).
Fmt(x, scale) ==
  LET n == x[1] * scale
      d == x[2]
      q == n \div d
      rem == n % d
  IN  IF 2 * rem > d \/ (2 * rem = d /\ q % 2 = 1) THEN q + 1 ELSE q

DisplayNames ==
  << <<None, "Overall">>, <<MASCULINE, "Masculine">>, <<FEMININE, "Feminine">> >>

\* The three lines appended for one display category.
Block(sc, gender, display_name) ==
  LET gender_scores == DictGet(sc, gender, Scores)
  IN  << [display_name |-> display_name,
          recall |-> Fmt(recall(gender_scores), 10),
          precision |-> Fmt(precision(gender_scores), 10),
          f1 |-> Fmt(f1(gender_scores), 10)],
         [tp |-> gender_scores.true_positives,
          fp |-> gender_scores.false_positives],
         [fn |-> gender_scores.false_negatives,
          tn |-> gender_scores.true_negatives] >>

\* The last line: bias is '-' (placeholder) or the ratio printed to two decimals.
\* (BiasLineInverted: the variant with the ratio upside down.)
BiasLineInverted(masculine_f1, feminine_f1) ==
  IF ~RIsZero(masculine_f1) /\ ~RIsZero(feminine_f1)
    THEN [placeholder |-> FALSE, bias |-> Fmt(RDiv(masculine_f1, feminine_f1), 100)]
    ELSE [placeholder |-> TRUE, bias |-> 0]

BiasLine(masculine_f1, feminine_f1) ==
  IF ~RIsZero(masculine_f1) /\ ~RIsZero(feminine_f1)
    THEN [placeholder |-> FALSE, bias |-> Fmt(RDiv(feminine_f1, masculine_f1), 100)]
    ELSE [placeholder |-> TRUE, bias |-> 0]

make_scorecard(sc) ==
  LET bias_terms == [g \in {None, MASCULINE, FEMININE} |-> f1(DictGet(sc, g, Scores))]
  IN  Block(sc, DisplayNames[1][1], DisplayNames[1][2])
      \o Block(sc, DisplayNames[2][1], DisplayNames[2][2])
      \o Block(sc, DisplayNames[3][1], DisplayNames[3][2])
      \o << BiasLine(bias_terms[MASCULINE], bias_terms[FEMININE]) >>

----------------------------------------------------------------------------
(* gap_scorer.py: run_scorer *)

\* "assert gold_annotations" / "assert system_annotations": an empty dict is falsy.
\* (AssertSkipped: the variant without the assertions.)
AssertSkipped(d) == TRUE

AssertNonEmpty(d) == DOMAIN d # {}

----------------------------------------------------------------------------
(* The steps of a run. *)

Rows(isGold) == IF isGold THEN GoldRows ELSE SystemRows

\* next(reader, None): the first line of a gold file is consumed and dropped.
SkipHeaderStep ==
  /\ pc = "gold_header"
  /\ pc' = "gold_rows"
  /\ UNCHANGED <<is_gold, annotations, row, nread, gold_annotations,
                 system_annotations, system_read, todo, scores, scorecard>>

\* One iteration of "for row in reader".
ReadStep(r) ==
  /\ pc \in {"gold_rows", "system_rows"}
  /\ nread < MaxRows
  /\ LET res == ReadRow(annotations, r, is_gold)
     IN  /\ row' = r
         /\ nread' = nread + 1
         /\ annotations' = res.annotations
         /\ pc' = IF res.failed THEN "aborted" ELSE pc
  /\ UNCHANGED <<is_gold, gold_annotations, system_annotations, system_read,
                 todo, scores, scorecard>>

SkipHeader ==
  /\ SkipHeaderStep
  /\ UNCHANGED file

ReadRowAction ==
  /\ \E r \in Rows(is_gold) : ReadStep(r)
  /\ UNCHANGED file

\* The gold file ends (it may be empty, without even a header): read_annotations
\* returns, run_scorer asserts and calls read_annotations on the system file.
GoldReturn ==
  /\ pc \in {"gold_header", "gold_rows"}
  /\ gold_annotations' = annotations
  /\ IF AssertNonEmpty(annotations)
       THEN /\ pc' = "system_rows"
            /\ is_gold' = FALSE
            /\ annotations' = EmptyDict
       ELSE /\ pc' = "aborted"
            /\ UNCHANGED <<is_gold, annotations>>
  /\ row' = NoRow
  /\ nread' = 0
  /\ UNCHANGED <<file, system_annotations, system_read, todo, scores, scorecard>>

\* The system file ends: read_annotations returns, run_scorer asserts and
\* calculate_scores starts.
SystemReturn ==
  /\ pc = "system_rows"
  /\ system_annotations' = annotations
  /\ system_read' = annotations
  /\ IF AssertNonEmpty(annotations)
       THEN /\ pc' = "score"
            /\ todo' = DOMAIN gold_annotations
            /\ annotations' = EmptyDict
       ELSE /\ pc' = "aborted"
            /\ UNCHANGED <<todo, annotations>>
  /\ row' = NoRow
  /\ nread' = 0
  /\ UNCHANGED <<is_gold, file, gold_annotations, scores, scorecard>>

\* One iteration of the loop of calculate_scores; a dict is iterated in no
\* particular order.
ScoreStep ==
  /\ pc = "score"
  /\ \E example_id \in todo :
       /\ system_annotations' = Lookup(system_annotations, example_id)
       /\ scores' = ScoreExample(scores, gold_annotations[example_id],
                                 LookupValue(system_annotations, example_id))
       /\ todo' = todo \ {example_id}
  /\ UNCHANGED <<pc, is_gold, annotations, row, nread, file, gold_annotations,
                 system_read, scorecard>>

\* calculate_scores returns and make_scorecard runs; run_scorer returns.
Format ==
  /\ pc = "score"
  /\ todo = {}
  /\ scorecard' = make_scorecard(scores)
  /\ pc' = "done"
  /\ UNCHANGED <<is_gold, annotations, row, nread, file, gold_annotations,
                 system_annotations, system_read, todo, scores>>

Init ==
  /\ pc = "gold_header"
  /\ is_gold = TRUE
  /\ annotations = EmptyDict
  /\ row = NoRow
  /\ nread = 0
  /\ file = <<>>
  /\ gold_annotations = EmptyDict
  /\ system_annotations = EmptyDict
  /\ system_read = EmptyDict
  /\ todo = {}
  /\ scores = EmptyDict
  /\ scorecard = <<>>

Next ==
  \/ SkipHeader
  \/ ReadRowAction
  \/ GoldReturn
  \/ SystemReturn
  \/ ScoreStep
  \/ Format

\* run_scorer(gold_tsv, system_tsv) on any two files of at most MaxRows data rows.
Spec == Init /\ [][Next]_vars

----------------------------------------------------------------------------
(* read_annotations alone, on any one file, with the rows read kept in file. *)

ReaderInit ==
  /\ is_gold \in BOOLEAN
  /\ pc = IF is_gold THEN "gold_header" ELSE "system_rows"
  /\ annotations = EmptyDict
  /\ row = NoRow
  /\ nread = 0
  /\ file = <<>>
  /\ gold_annotations = EmptyDict
  /\ system_annotations = EmptyDict
  /\ system_read = EmptyDict
  /\ todo = {}
  /\ scores = EmptyDict
  /\ scorecard = <<>>

ReaderSkipHeader ==
  /\ SkipHeaderStep
  /\ \E h \in HeaderRows : file' = Append(file, h)

ReaderReadRow ==
  \E r \in Rows(is_gold) :
    /\ ReadStep(r)
    /\ file' = Append(file, r)

ReaderReturn ==
  /\ pc \in {"gold_header", "gold_rows", "system_rows"}
  /\ pc' = "returned"
  /\ UNCHANGED <<is_gold, annotations, row, nread, file, gold_annotations,
                 system_annotations, system_read, todo, scores, scorecard>>

ReaderNext ==
  \/ ReaderSkipHeader
  \/ ReaderReadRow
  \/ ReaderReturn

ReaderSpec == ReaderInit /\ [][ReaderNext]_vars

----------------------------------------------------------------------------
(* make_scorecard and the metrics alone, on any dict of tallies. *)

Tallies ==
  { s \in [true_positives : 0..MaxTally, false_positives : 0..MaxTally,
           true_negatives : 0..MaxTally, false_negatives : 0..MaxTally] :
      s.true_positives + s.false_positives
        + s.true_negatives + s.false_negatives <= MaxTally }

ScoreDicts == UNION { [K -> Tallies] : K \in SUBSET {None, MASCULINE, FEMININE} }

MetricsInit ==
  /\ pc = "score"
  /\ todo = {}
  /\ scores \in ScoreDicts
  /\ is_gold = FALSE
  /\ annotations = EmptyDict
  /\ row = NoRow
  /\ nread = 0
  /\ file = <<>>
  /\ gold_annotations = EmptyDict
  /\ system_annotations = EmptyDict
  /\ system_read = EmptyDict
  /\ scorecard = <<>>

MetricsNext == Format

MetricsSpec == MetricsInit /\ [][MetricsNext]_vars

----------------------------------------------------------------------------
(* What the properties below speak of. *)

Counters == {"true_positives", "false_positives", "true_negatives", "false_negatives"}

Judgments == {"name_a_coref", "name_b_coref"}

Total(s) ==
  s.true_positives + s.false_positives + s.true_negatives + s.false_negatives

\* The table of the scorer: the counter for a (gold, system) pair, gold not null.
Table(gold, system) ==
  CASE system = None -> "false_negatives"
    [] gold = PyTrue /\ system = PyTrue -> "true_positives"
    [] gold = PyFalse /\ system = PyTrue -> "false_positives"
    [] gold = PyFalse /\ system = PyFalse -> "true_negatives"
    [] gold = PyTrue /\ system = PyFalse -> "false_negatives"
    [] OTHER -> "none"

\* The table, or, with nullAsFalse, the table with a null gold value read as false.
Tab(gold, system, nullAsFalse) ==
  Table(IF nullAsFalse /\ gold = None THEN PyFalse ELSE gold, system)

\* The system judgment the file gave for an example: null without a row for it.
SystemJudgment(example_id, j) ==
  IF example_id \in DOMAIN system_read THEN system_read[example_id][j] ELSE None

\* The gold examples calculate_scores has visited.
Visited ==
  IF pc \in {"score", "done"} THEN DOMAIN gold_annotations \ todo ELSE {}

\* The gold examples a tally's key covers.
Covered(key, ids) ==
  {e \in ids : key = None \/ gold_annotations[e].gender = key}

\* The number of judgments of the examples in ids that Tab sends to counter c.
RECURSIVE CountIn(_, _, _)
CountIn(ids, c, nullAsFalse) ==
  IF ids = {} THEN 0
  ELSE LET e == CHOOSE x \in ids : TRUE
       IN  Cardinality({j \in Judgments :
                          Tab(gold_annotations[e][j], SystemJudgment(e, j),
                              nullAsFalse) = c})
           + CountIn(ids \ {e}, c, nullAsFalse)

\* A step of calculate_scores, and the example it visits.
IsScoreStep == pc = "score" /\ todo' # todo
StepExample == CHOOSE e \in todo : todo' = todo \ {e}

\* What the step adds to counter c of the tally of key.
Before(key, c) == IF key \in DOMAIN scores THEN scores[key][c] ELSE 0
StepKeys == {None, gold_annotations[StepExample].gender}

StepFollows(nullAsFalse) ==
  \A key \in StepKeys :
    /\ key \in DOMAIN scores'
    /\ \A c \in Counters :
         scores'[key][c] - Before(key, c) = CountIn({StepExample}, c, nullAsFalse)

GoldNonNull(e) == \A j \in Judgments : gold_annotations[e][j] \in {PyTrue, PyFalse}

Parseable(text) ==
  Lower(text) \in {<<"t","r","u","e">>, <<"f","a","l","s","e">>}

\* A step of read_annotations that reads a row with an ID not seen before.
IsFirstRead == pc \in {"gold_rows", "system_rows"} /\ nread' = nread + 1
                 /\ row'.ID \notin DOMAIN annotations

----------------------------------------------------------------------------
(* C1: every visit of a gold example whose two gold values are true or false   *)
(* adds, to the overall tally and to the tally of the example's gender, exactly *)
(* one to one counter per judgment, the counter the table names; and the final  *)
(* tallies are the table's counts over the inputs, whatever the order of the    *)
(* visits.                                                                      *)
C1_Step == (IsScoreStep /\ GoldNonNull(StepExample)) => StepFollows(FALSE)

C1_Final ==
  (pc = "done" /\ \A e \in DOMAIN gold_annotations : GoldNonNull(e)) =>
    \A key \in {None, MASCULINE, FEMININE} : \A c \in Counters :
      Before(key, c) = CountIn(Covered(key, DOMAIN gold_annotations), c, FALSE)

C1_ClassificationFollowsTable == [][C1_Step]_vars /\ []C1_Final

\* A finished run over gold values that are all true or false, where a missing
\* system judgment, a true positive and a false positive were counted.
C1_Witness ==
  /\ pc = "done"
  /\ \A e \in DOMAIN gold_annotations : GoldNonNull(e)
  /\ None \in DOMAIN scores
  /\ scores[None].true_positives >= 1
  /\ scores[None].false_positives >= 1
  /\ \E e \in DOMAIN gold_annotations : SystemJudgment(e, "name_a_coref") = None

----------------------------------------------------------------------------
(* C2: at every moment of calculate_scores and after it, each counter of the   *)
(* overall tally is the sum of that counter over the gender tallies present.   *)
GenderSum(c) ==
  (IF MASCULINE \in DOMAIN scores THEN scores[MASCULINE][c] ELSE 0)
  + (IF FEMININE \in DOMAIN scores THEN scores[FEMININE][c] ELSE 0)
  + (IF UNKNOWN \in DOMAIN scores THEN scores[UNKNOWN][c] ELSE 0)

C2_OverallIsSumOfGenders ==
  /\ DOMAIN scores # {} => None \in DOMAIN scores
  /\ Visited # {} => None \in DOMAIN scores
  /\ \A c \in Counters : Before(None, c) = GenderSum(c)

\* A finished run with both genders tallied and a true positive counted.
C2_Witness ==
  /\ pc = "done"
  /\ {MASCULINE, FEMININE} \subseteq DOMAIN scores
  /\ scores[MASCULINE].true_positives >= 1
  /\ scores[FEMININE].false_negatives >= 1

----------------------------------------------------------------------------
(* C3: once calculate_scores has visited a set of gold examples, the overall   *)
(* tally counts two judgments per visited example, the tally of a gender two   *)
(* per visited example of that gender, a gender without a visited example has  *)
(* no tally, and there is no other tally; system rows of other IDs add nothing.*)
C3_TwoPerExample ==
  pc \in {"score", "done"} =>
    /\ DOMAIN scores \subseteq {None, MASCULINE, FEMININE}
    /\ \A key \in {None, MASCULINE, FEMININE} :
         IF Covered(key, Visited) = {}
           THEN key \notin DOMAIN scores
           ELSE /\ key \in DOMAIN scores
                /\ Total(scores[key]) = 2 * Cardinality(Covered(key, Visited))

\* A finished run where the system file had a row for an ID gold does not have,
\* and none for a gold ID.
C3_Witness ==
  /\ pc = "done"
  /\ \E e \in DOMAIN system_read : e \notin DOMAIN gold_annotations
  /\ \E e \in DOMAIN gold_annotations : e \notin DOMAIN system_read

----------------------------------------------------------------------------
(* C4: in read_annotations, on a gold or a system file, the dict holds one      *)
(* annotation per ID read, and it holds what the first row with that ID gave:   *)
(* a later row with the ID changes nothing, also when the first row's coref     *)
(* texts were unparseable and stored as null.  Checked under ReaderSpec.        *)
DataRows == IF is_gold /\ file # <<>> THEN Tail(file) ELSE file

FirstRowOf(example_id) ==
  DataRows[CHOOSE i \in DOMAIN DataRows :
             /\ DataRows[i].ID = example_id
             /\ \A k \in 1..(i - 1) : DataRows[k].ID # example_id]

C4_FirstRowWins ==
  /\ DOMAIN annotations = {DataRows[i].ID : i \in DOMAIN DataRows}
  /\ \A example_id \in DOMAIN annotations :
       LET r == FirstRowOf(example_id)
           a == annotations[example_id]
       IN  /\ a.name_a_coref = is_true(r.Acoref)
           /\ a.name_b_coref = is_true(r.Bcoref)
           /\ ~Parseable(r.Acoref) => a.name_a_coref = None
           /\ ~Parseable(r.Bcoref) => a.name_b_coref = None
           /\ ~is_gold => a.gender = None
           /\ is_gold =>
                \/ a.gender = RowGender(r)
                \/ pc = "aborted" /\ example_id = row.ID /\ a.gender = None

\* A file read to its end with two rows of one ID, the first with an unparseable
\* A-coref and the second with a parseable one: the annotation keeps the null.
C4_Witness ==
  /\ pc = "returned"
  /\ \E i, k \in DOMAIN DataRows :
       /\ i < k
       /\ DataRows[i].ID = DataRows[k].ID
       /\ ~Parseable(DataRows[i].Acoref)
       /\ Parseable(DataRows[k].Acoref)
       /\ \A m \in 1..(i - 1) : DataRows[m].ID # DataRows[i].ID
       /\ annotations[DataRows[i].ID].name_a_coref = None

----------------------------------------------------------------------------
(* C5: a system judgment that is null, for want of a row for the gold ID or     *)
(* because the row's text is not true/false in any case, is counted as a false  *)
(* negative in the overall tally and in the gold gender's tally whatever the    *)
(* gold value; no judgment is dropped, and scoring never aborts.                *)
NullCount(e) == Cardinality({j \in Judgments : SystemJudgment(e, j) = None})

RECURSIVE NullCountIn(_)
NullCountIn(ids) ==
  IF ids = {} THEN 0
  ELSE LET e == CHOOSE x \in ids : TRUE
       IN  NullCount(e) + NullCountIn(ids \ {e})

C5_ScoreStep ==
  IsScoreStep =>
    /\ pc' = "score"
    /\ \A key \in StepKeys :
         /\ key \in DOMAIN scores'
         /\ scores'[key].false_negatives - Before(key, "false_negatives")
              >= NullCount(StepExample)
         /\ Total(scores'[key])
              - (IF key \in DOMAIN scores THEN Total(scores[key]) ELSE 0) = 2

C5_ReadStep ==
  (IsFirstRead /\ ~is_gold) =>
    /\ pc' = "system_rows"
    /\ row'.ID \in DOMAIN annotations'
    /\ ~Parseable(row'.Acoref) => annotations'[row'.ID].name_a_coref = None
    /\ ~Parseable(row'.Bcoref) => annotations'[row'.ID].name_b_coref = None

C5_Tallied ==
  /\ pc \in {"score", "done"} =>
       \A key \in {None, MASCULINE, FEMININE} :
         Before(key, "false_negatives") >= NullCountIn(Covered(key, Visited))
  /\ pc = "done" => Len(scorecard) = 10

C5_MissingIsFalseNegative ==
  [][C5_ScoreStep /\ C5_ReadStep]_vars /\ []C5_Tallied

\* A finished run where one gold example with A-coref true had no system row and
\* another had a system row with an unparseable A-coref and a parseable B-coref.
C5_Witness ==
  /\ pc = "done"
  /\ \E e1, e2 \in DOMAIN gold_annotations :
       /\ e1 \notin DOMAIN system_read
       /\ gold_annotations[e1].name_a_coref = PyTrue
       /\ e2 \in DOMAIN system_read
       /\ system_read[e2].name_a_coref = None
       /\ system_read[e2].name_b_coref # None
  /\ scores[None].false_negatives >= 3

----------------------------------------------------------------------------
(* C6: a scorecard is produced only by a finished run, whose gold dict and      *)
(* system dict were not empty and whose gold annotations all have gender        *)
(* MASCULINE or FEMININE; an empty gold dict, an empty system dict and a first  *)
(* gold row of an ID with an unrecognized pronoun each abort the run, and an    *)
(* aborted run has no scorecard.                                                *)
C6_State ==
  /\ scorecard # <<>> => pc = "done"
  /\ pc = "done" => scorecard # <<>>
  /\ pc \in {"system_rows", "score", "done"} =>
       /\ DOMAIN gold_annotations # {}
       /\ \A e \in DOMAIN gold_annotations :
            gold_annotations[e].gender \in {MASCULINE, FEMININE}
  /\ pc \in {"score", "done"} => DOMAIN system_read # {}

C6_Step ==
  /\ (pc \in {"gold_header", "gold_rows"} /\ pc' \notin {"gold_header", "gold_rows"}
        /\ DOMAIN annotations = {}) => pc' = "aborted"
  /\ (pc = "system_rows" /\ pc' # "system_rows" /\ DOMAIN annotations = {})
       => pc' = "aborted"
  /\ (IsFirstRead /\ is_gold /\ Lower(row'.Pronoun) \notin DOMAIN PRONOUNS)
       => pc' = "aborted"
  /\ pc' = "aborted" => scorecard' = <<>>

C6_ScorecardOnlyForValidFiles == [][C6_Step]_vars /\ []C6_State

\* A gold file with a header line and no data row: the run has aborted.
C6_Witness ==
  /\ pc = "aborted"
  /\ is_gold
  /\ nread = 0
  /\ DOMAIN gold_annotations = {}
  /\ scorecard = <<>>

----------------------------------------------------------------------------
(* C7: for every tally, recall = 100*tp/(tp+fn), precision = 100*tp/(tp+fp)    *)
(* and f1 = 2*precision*recall/(precision+recall) lie in [0, 100], and each is  *)
(* 0 when its denominator is 0.  Checked under MetricsSpec.                     *)
InRange(x) == x[2] > 0 /\ 0 <= x[1] /\ x[1] <= 100 * x[2]

C7_MetricsInRange ==
  \A key \in DOMAIN scores :
    LET s == scores[key]
        tp == s.true_positives
        r == recall(s)
        p == precision(s)
        f == f1(s)
    IN  /\ InRange(r) /\ InRange(p) /\ InRange(f)
        /\ IF tp + s.false_negatives = 0
             THEN r[1] = 0
             ELSE r[1] * (tp + s.false_negatives) = 100 * tp * r[2]
        /\ IF tp + s.false_positives = 0
             THEN p[1] = 0
             ELSE p[1] * (tp + s.false_positives) = 100 * tp * p[2]
        /\ IF p[1] * r[2] + r[1] * p[2] = 0
             THEN f[1] = 0
             ELSE f[1] * (p[1] * r[2] + r[1] * p[2]) = 2 * p[1] * r[1] * f[2]

\* A dict with a tally whose three denominators are 0 and a tally whose recall,
\* precision and f1 are strictly between 0 and 100, after make_scorecard ran.
C7_Witness ==
  /\ pc = "done"
  /\ \E k1, k2 \in DOMAIN scores :
       /\ scores[k1].true_positives = 0
       /\ scores[k1].false_negatives = 0
       /\ scores[k1].false_positives = 0
       /\ scores[k2].true_positives >= 1
       /\ scores[k2].false_positives >= 1
       /\ scores[k2].false_negatives >= 1

----------------------------------------------------------------------------
(* C8: make_scorecard gives ten lines: the blocks Overall, Masculine, Feminine  *)
(* in that order, each with the counters of its tally, or zeros and metrics 0.0 *)
(* without one, then the bias line; the bias is the placeholder exactly when    *)
(* the masculine or the feminine F1 is 0 (no true positive), and otherwise is   *)
(* feminine F1 / masculine F1 to two decimals.  Checked under MetricsSpec.      *)
TallyOf(key) == IF key \in DOMAIN scores THEN scores[key] ELSE Scores

\* F1 = 200 tp / (2 tp + fp + fn); the ratio of two of them as <<n, d>>.
F1Ratio(f, m) ==
  << f.true_positives
       * (2 * m.true_positives + m.false_positives + m.false_negatives),
     m.true_positives
       * (2 * f.true_positives + f.false_positives + f.false_negatives) >>

Abs(x) == IF x < 0 THEN -x ELSE x

C8_BlockIs(i, key, name) ==
  /\ scorecard[3 * i - 2].display_name = name
  /\ scorecard[3 * i - 1] =
       [tp |-> TallyOf(key).true_positives, fp |-> TallyOf(key).false_positives]
  /\ scorecard[3 * i] =
       [fn |-> TallyOf(key).false_negatives, tn |-> TallyOf(key).true_negatives]
  /\ key \notin DOMAIN scores =>
       /\ scorecard[3 * i - 2].recall = 0
       /\ scorecard[3 * i - 2].precision = 0
       /\ scorecard[3 * i - 2].f1 = 0

C8_Scorecard ==
  pc = "done" =>
    /\ Len(scorecard) = 10
    /\ C8_BlockIs(1, None, "Overall")
    /\ C8_BlockIs(2, MASCULINE, "Masculine")
    /\ C8_BlockIs(3, FEMININE, "Feminine")
    /\ LET m == TallyOf(MASCULINE)
           f == TallyOf(FEMININE)
           ratio == F1Ratio(f, m)
           last == scorecard[10]
       IN  /\ last.placeholder <=> (m.true_positives = 0 \/ f.true_positives = 0)
           /\ ~last.placeholder =>
                2 * Abs(last.bias * ratio[2] - 100 * ratio[1]) <= ratio[2]

\* A scorecard of a dict without an overall tally whose bias line reads 1.50.
C8_Witness ==
  /\ pc = "done"
  /\ None \notin DOMAIN scores
  /\ Len(scorecard) = 10
  /\ ~scorecard[10].placeholder
  /\ scorecard[10].bias = 150

----------------------------------------------------------------------------
(* C9, as stated: calculate_scores and make_scorecard leave both annotation     *)
(* dicts as read_annotations returned them.                                     *)
C9_DictsUnchangedByScoring ==
  [][pc = "score" =>
       /\ gold_annotations' = gold_annotations
       /\ system_annotations' = system_annotations]_vars

(* C9, amended: an annotation, once filled from its row, is never changed, and  *)
(* calculate_scores and make_scorecard leave the gold dict and every system     *)
(* annotation read from the file unchanged; but a visit of a gold example       *)
(* without a system row adds an Annotation with all fields null for that ID to  *)
(* the system dict, and nothing else is added.                                  *)
C9_ReadStep ==
  (pc \in {"gold_rows", "system_rows"} /\ pc' = pc) =>
    \A e \in DOMAIN annotations :
      e \in DOMAIN annotations' /\ annotations'[e] = annotations[e]

C9_ScoreStep ==
  pc = "score" =>
    /\ gold_annotations' = gold_annotations
    /\ \A e \in DOMAIN system_annotations :
         /\ e \in DOMAIN system_annotations'
         /\ system_annotations'[e] = system_annotations[e]
    /\ IsScoreStep => StepExample \in DOMAIN system_annotations'
    /\ \A e \in DOMAIN system_annotations' \ DOMAIN system_annotations :
         /\ IsScoreStep /\ e = StepExample
         /\ system_annotations'[e] =
              [gender |-> None, name_a_coref |-> None, name_b_coref |-> None]

C9_State ==
  pc \in {"score", "done"} =>
    /\ DOMAIN system_annotations = DOMAIN system_read \cup Visited
    /\ \A e \in DOMAIN system_read : system_annotations[e] = system_read[e]

C9_OnlyMissingSystemAnnotationsAdded ==
  [][C9_ReadStep /\ C9_ScoreStep]_vars /\ []C9_State

\* A finished run whose system dict has grown by an ID the system file lacked.
C9_Witness ==
  /\ pc = "done"
  /\ \E e \in DOMAIN system_annotations :
       e \notin DOMAIN system_read /\ e \in DOMAIN gold_annotations

----------------------------------------------------------------------------
(* C10: a gold row with an unparseable coref text and a known pronoun does not  *)
(* abort the read and stores null; calculate_scores counts a judgment whose     *)
(* gold value is null as if gold were false, and never as a true positive.      *)
GoldTrueCountIn(key) ==
  Cardinality({ej \in Covered(key, Visited) \X Judgments :
                 gold_annotations[ej[1]][ej[2]] = PyTrue})

C10_ScoreStep ==
  (IsScoreStep /\ ~GoldNonNull(StepExample)) => StepFollows(TRUE)

C10_ReadStep ==
  (IsFirstRead /\ is_gold /\ Lower(row'.Pronoun) \in DOMAIN PRONOUNS) =>
    /\ pc' = "gold_rows"
    /\ row'.ID \in DOMAIN annotations'
    /\ ~Parseable(row'.Acoref) => annotations'[row'.ID].name_a_coref = None
    /\ ~Parseable(row'.Bcoref) => annotations'[row'.ID].name_b_coref = None

C10_State ==
  pc \in {"score", "done"} =>
    \A key \in {None, MASCULINE, FEMININE} :
      Before(key, "true_positives") <= GoldTrueCountIn(key)

C10_NullGoldCountsAsFalse ==
  [][C10_ScoreStep /\ C10_ReadStep]_vars /\ []C10_State

\* A finished run with a gold example whose A-coref is null, scored against
\* system true (a false positive) with no true positive anywhere.
C10_Witness ==
  /\ pc = "done"
  /\ \E e \in DOMAIN gold_annotations :
       /\ gold_annotations[e].name_a_coref = None
       /\ SystemJudgment(e, "name_a_coref") = PyTrue
  /\ scores[None].false_positives >= 1
  /\ scores[None].true_positives = 0

====
